---- MODULE Spec2Model ----
(***************************************************************************)
(* Philippine Economic Outlook dashboard: the presentation layer (App),    *)
(* the data fetch client (fetchEconomicData) and the relay                 *)
(* (api/economic-data handler and getEconomicData).                        *)
(*                                                                         *)
(* Text is modelled as a sequence of lexemes: every JavaScript string of   *)
(* the program (the model's reply, an error message, a month label) is a   *)
(* sequence of TLA+ strings, each standing for one character or for a run  *)
(* of characters free of JSON punctuation.  Indices are 1-based; 0 plays   *)
(* the part of JavaScript's -1.                                            *)
(***************************************************************************)
EXTENDS Integers, Sequences, FiniteSets, TLC

(***************************************************************************)
(* Bounds of the explored inputs.                                          *)
(***************************************************************************)
MaxRows == 2
MaxChunks == 2
MaxInFlight == 2
MaxSortRows == 3

(***************************************************************************)
(* Text helpers (String.prototype.trim / indexOf / lastIndexOf).           *)
(***************************************************************************)
Whitespace == {" ", "\n"}

RECURSIVE TrimStart(_)
TrimStart(s) ==
  IF s # <<>> /\ Head(s) \in Whitespace THEN TrimStart(Tail(s)) ELSE s

RECURSIVE TrimEnd(_)
TrimEnd(s) ==
  IF s # <<>> /\ s[Len(s)] \in Whitespace
  THEN TrimEnd(SubSeq(s, 1, Len(s) - 1))
  ELSE s

Trim(s) == TrimEnd(TrimStart(s))

IndexOf(s, c) ==
  IF \E i \in 1..Len(s) : s[i] = c
  THEN CHOOSE i \in 1..Len(s) : s[i] = c /\ \A j \in 1..(i - 1) : s[j] # c
  ELSE 0

LastIndexOf(s, c) ==
  IF \E i \in 1..Len(s) : s[i] = c
  THEN CHOOSE i \in 1..Len(s) : s[i] = c /\ \A j \in (i + 1)..Len(s) : s[j] # c
  ELSE 0

\* s.includes(sub): sub occurs in s as a contiguous run.
Includes(s, sub) ==
  \E i \in 1..(Len(s) - Len(sub) + 1) : SubSeq(s, i, i + Len(sub) - 1) = sub

(***************************************************************************)
(* JSON values.                                                            *)
(***************************************************************************)
Null == [k |-> "null"]
Num(t) == [k |-> "num", n |-> t]
Str(c) == [k |-> "str", s |-> c]
Arr(xs) == [k |-> "arr", items |-> xs]
Obj(fs) == [k |-> "obj", fields |-> fs]
Field(key, v) == [key |-> key, val |-> v]

\* The value JavaScript calls undefined (a missing property).
Undefined == [k |-> "undefined"]

NumberLexemes == {"0", "5.5", "5.7"}

\* obj[key] of JavaScript: the last member of that name, undefined when
\* there is none or when the value is not an object.
Get(v, key) ==
  IF v.k = "obj" /\ \E i \in 1..Len(v.fields) : v.fields[i].key = key
  THEN LET i == CHOOSE i \in 1..Len(v.fields) :
                  /\ v.fields[i].key = key
                  /\ \A j \in (i + 1)..Len(v.fields) : v.fields[j].key # key
       IN v.fields[i].val
  ELSE Undefined

\* ToBoolean.
Truthy(v) ==
  CASE v.k = "undefined" -> FALSE
    [] v.k = "null" -> FALSE
    [] v.k = "str" -> v.s # <<>>
    [] v.k = "num" -> v.n # "0"
    [] OTHER -> TRUE

IsArray(v) == v.k = "arr"

(***************************************************************************)
(* JSON.stringify.  A quote inside a string is written as the escape \"    *)
(* (one lexeme) and read back as a quote.                                  *)
(***************************************************************************)
Quote == "\""
EscapedQuote == "\\\""

Escape(c) == [i \in 1..Len(c) |-> IF c[i] = Quote THEN EscapedQuote ELSE c[i]]
Unescape(c) == [i \in 1..Len(c) |-> IF c[i] = EscapedQuote THEN Quote ELSE c[i]]

RECURSIVE Stringify(_)
RECURSIVE StringifyItems(_)
RECURSIVE StringifyFields(_)
Stringify(v) ==
  CASE v.k = "null" -> <<"null">>
    [] v.k = "num" -> <<v.n>>
    [] v.k = "str" -> <<"\"">> \o Escape(v.s) \o <<"\"">>
    [] v.k = "arr" -> <<"[">> \o StringifyItems(v.items) \o <<"]">>
    [] v.k = "obj" -> <<"{">> \o StringifyFields(v.fields) \o <<"}">>

StringifyItems(xs) ==
  IF xs = <<>> THEN <<>>
  ELSE Stringify(Head(xs))
       \o (IF Len(xs) > 1 THEN <<",">> ELSE <<>>)
       \o StringifyItems(Tail(xs))

StringifyFields(fs) ==
  IF fs = <<>> THEN <<>>
  ELSE <<"\"">> \o Escape(Head(fs).key) \o <<"\"", ":">>
       \o Stringify(Head(fs).val)
       \o (IF Len(fs) > 1 THEN <<",">> ELSE <<>>)
       \o StringifyFields(Tail(fs))

(***************************************************************************)
(* JSON.parse: a recursive-descent parser over the lexemes.  A result is   *)
(* [ok, val, next, msg]: the value and the index after it, or the message  *)
(* of the SyntaxError.                                                     *)
(***************************************************************************)
POk(v, n) == [ok |-> TRUE, val |-> v, next |-> n, msg |-> <<>>]
PFail(m) == [ok |-> FALSE, val |-> Null, next |-> 0, msg |-> m]

UnexpectedEnd == <<"Unexpected end of JSON input">>
UnexpectedToken(t) == <<"Unexpected token ", t, " in JSON">>

RECURSIVE SkipWs(_, _)
SkipWs(s, i) ==
  IF i <= Len(s) /\ s[i] \in Whitespace THEN SkipWs(s, i + 1) ELSE i

\* The index of the quote closing a string opened before i, 0 when none.
RECURSIVE ClosingQuote(_, _)
ClosingQuote(s, i) ==
  IF i > Len(s) THEN 0
  ELSE IF s[i] = "\"" THEN i
  ELSE ClosingQuote(s, i + 1)

ParseString(s, i) ==
  LET j == ClosingQuote(s, i + 1)
  IN IF j = 0 THEN PFail(UnexpectedEnd)
     ELSE POk(Str(Unescape(SubSeq(s, i + 1, j - 1))), j + 1)

\* F applied to the value of x, which is computed once.
With(x, F(_)) == CHOOSE y \in {F(v) : v \in {x}} : TRUE

RECURSIVE ParseValue(_, _)
RECURSIVE ParseItems(_, _, _)
RECURSIVE ParseFields(_, _, _)

\* The value that starts at i, the first index past the whitespace.
ParseValueAt(s, i) ==
  IF i > Len(s) THEN PFail(UnexpectedEnd)
  ELSE CASE s[i] = "null" -> POk(Null, i + 1)
         [] s[i] \in NumberLexemes -> POk(Num(s[i]), i + 1)
         [] s[i] = "\"" -> ParseString(s, i)
         [] s[i] = "[" ->
              IF SkipWs(s, i + 1) <= Len(s) /\ s[SkipWs(s, i + 1)] = "]"
              THEN POk(Arr(<<>>), SkipWs(s, i + 1) + 1)
              ELSE ParseItems(s, i + 1, <<>>)
         [] s[i] = "{" ->
              IF SkipWs(s, i + 1) <= Len(s) /\ s[SkipWs(s, i + 1)] = "}"
              THEN POk(Obj(<<>>), SkipWs(s, i + 1) + 1)
              ELSE ParseFields(s, i + 1, <<>>)
         [] OTHER -> PFail(UnexpectedToken(s[i]))

ParseValue(s, i0) == With(SkipWs(s, i0), LAMBDA i : ParseValueAt(s, i))

\* After the element r: "," and the next elements, or "]" at j.
ParseItemsAfter(s, r, j, acc) ==
  IF j > Len(s) THEN PFail(UnexpectedEnd)
  ELSE IF s[j] = "," THEN ParseItems(s, j + 1, Append(acc, r.val))
  ELSE IF s[j] = "]" THEN POk(Arr(Append(acc, r.val)), j + 1)
  ELSE PFail(UnexpectedToken(s[j]))

\* The elements of an array after "[" or ",", up to and including "]".
ParseItems(s, i, acc) ==
  With(ParseValue(s, i),
       LAMBDA r : IF ~r.ok THEN r
                  ELSE With(SkipWs(s, r.next),
                            LAMBDA j : ParseItemsAfter(s, r, j, acc)))

\* After the member key: r, "," and the next members, or "}" at j.
ParseFieldsAfter(s, key, r, j, acc) ==
  IF j > Len(s) THEN PFail(UnexpectedEnd)
  ELSE IF s[j] = "," THEN ParseFields(s, j + 1, Append(acc, Field(key.val.s, r.val)))
  ELSE IF s[j] = "}" THEN POk(Obj(Append(acc, Field(key.val.s, r.val))), j + 1)
  ELSE PFail(UnexpectedToken(s[j]))

\* After the member's key, with c the first index past the whitespace.
ParseFieldValue(s, key, c, acc) ==
  IF c > Len(s) THEN PFail(UnexpectedEnd)
  ELSE IF s[c] # ":" THEN PFail(UnexpectedToken(s[c]))
  ELSE With(ParseValue(s, c + 1),
            LAMBDA r : IF ~r.ok THEN r
                       ELSE With(SkipWs(s, r.next),
                                 LAMBDA j : ParseFieldsAfter(s, key, r, j, acc)))

\* The member that starts at i, the first index past the whitespace.
ParseFieldsAt(s, i, acc) ==
  IF i > Len(s) THEN PFail(UnexpectedEnd)
  ELSE IF s[i] # "\"" THEN PFail(UnexpectedToken(s[i]))
  ELSE With(ParseString(s, i),
            LAMBDA key : IF ~key.ok THEN key
                         ELSE With(SkipWs(s, key.next),
                                   LAMBDA c : ParseFieldValue(s, key, c, acc)))

\* The members of an object after "{" or ",", up to and including "}".
ParseFields(s, i0, acc) ==
  With(SkipWs(s, i0), LAMBDA i : ParseFieldsAt(s, i, acc))

\* After the value only whitespace may follow.
ParseEnd(s, r) ==
  IF ~r.ok THEN r
  ELSE IF SkipWs(s, r.next) > Len(s) THEN r
  ELSE PFail(UnexpectedToken(s[SkipWs(s, r.next)]))

JSONParse(s) == With(ParseValue(s, 1), LAMBDA r : ParseEnd(s, r))

(***************************************************************************)
(* Indicator catalog (INDICATORS_MAP): three of its keys, one per unit.    *)
(***************************************************************************)
Catalog == <<"gdpGrowth", "pesoDollarRate", "wtiCrudeOil">>
IndicatorKeys == {Catalog[i] : i \in 1..Len(Catalog)}

(***************************************************************************)
(* Errors: a JavaScript Error is its class name and its message.           *)
(***************************************************************************)
Error(m) == [name |-> "Error", message |-> m]
TypeError(m) == [name |-> "TypeError", message |-> m]
SyntaxError(m) == [name |-> "SyntaxError", message |-> m]

Resolved(v) == [ok |-> TRUE, value |-> v, error |-> Error(<<>>)]
Rejected(e) == [ok |-> FALSE, value |-> Null, error |-> e]

(***************************************************************************)
(* The relay: getEconomicData and the serverless handler.                  *)
(***************************************************************************)
ConfigMarker == "API_KEY environment variable not set"
ConfigErrorMessage == <<ConfigMarker, " on the server.">>
ParsePrefix == "Failed to parse JSON from the AI's response. Details: "
NotExpectedFormat == <<"Parsed data from Gemini is not in the expected format.">>
HandlerFailureMessage == <<"Failed to fetch economic data.">>
BadRequestMessage == <<"Please provide an array of indicators.">>

Source(title, uri) ==
  Obj(<<Field(<<"title">>, title), Field(<<"uri">>, uri)>>)

FetchResult(rows, srcs) ==
  Obj(<<Field(<<"data">>, Arr(rows)), Field(<<"sources">>, Arr(srcs))>>)

\* Map.prototype.set on an insertion-ordered map kept as a sequence of
\* [key, val]: an existing key keeps its place and takes the new value.
MapSet(m, key, v) ==
  IF \E i \in 1..Len(m) : m[i].key = key
  THEN [i \in 1..Len(m) |-> IF m[i].key = key THEN Field(key, v) ELSE m[i]]
  ELSE Append(m, Field(key, v))

MapValues(m) == [i \in 1..Len(m) |-> m[i].val]

\* The sources keyed by title and uri together instead of by uri.
RECURSIVE UniqueSourcesByTitleAndUri(_, _)
UniqueSourcesByTitleAndUri(chunks, m) ==
  IF chunks = <<>> THEN m
  ELSE UniqueSourcesByTitleAndUri(
         Tail(chunks),
         IF Truthy(Head(chunks).uri) /\ Truthy(Head(chunks).title)
         THEN MapSet(m, <<Head(chunks).title, Head(chunks).uri>>,
                     Source(Head(chunks).title, Head(chunks).uri))
         ELSE m)

\* The sources with the first title seen for a uri kept, as
\* self.findIndex((s) => s.uri === source.uri) keeps them.
RECURSIVE UniqueSourcesFirstWins(_, _)
UniqueSourcesFirstWins(chunks, m) ==
  IF chunks = <<>> THEN m
  ELSE UniqueSourcesFirstWins(
         Tail(chunks),
         IF /\ Truthy(Head(chunks).uri) /\ Truthy(Head(chunks).title)
            /\ ~\E i \in 1..Len(m) : m[i].key = Head(chunks).uri
         THEN Append(m, Field(Head(chunks).uri,
                              Source(Head(chunks).title, Head(chunks).uri)))
         ELSE m)

\* A grounding chunk is [uri, title], each a string value or Undefined
\* (chunk.web?.uri of a chunk without web is undefined).
RECURSIVE UniqueSources(_, _)
UniqueSources(chunks, m) ==
  IF chunks = <<>> THEN m
  ELSE LET chunk == Head(chunks)
       IN UniqueSources(
            Tail(chunks),
            IF Truthy(chunk.uri) /\ Truthy(chunk.title)
            THEN MapSet(m, chunk.uri, Source(chunk.title, chunk.uri))
            ELSE m)

\* grounding is [present, chunks]: groundingMetadata?.groundingChunks.
WebSources(grounding) ==
  IF grounding.present
  THEN MapValues(UniqueSources(grounding.chunks, <<>>))
  ELSE <<>>

\* The reply handed to JSON.parse as it is, trimmed only.
ExtractJsonTextTrimOnly(text) == Trim(text)

\* The text handed to JSON.parse: from the first "{" to the last "}".
ExtractJsonText(text) ==
  LET jsonText == Trim(text)
      jsonStart == IndexOf(jsonText, "{")
      jsonEnd == LastIndexOf(jsonText, "}")
  IN IF jsonStart # 0 /\ jsonEnd > jsonStart
     THEN Trim(SubSeq(jsonText, jsonStart, jsonEnd))
     ELSE jsonText

\* The structure check defaulting a missing data array to no rows.
CheckParsedDataLenient(r, webSources) ==
  IF r.ok
  THEN Resolved(FetchResult(IF IsArray(Get(r.val, <<"data">>))
                            THEN Get(r.val, <<"data">>).items
                            ELSE <<>>, webSources))
  ELSE Rejected(Error(<<ParsePrefix>> \o r.msg))

\* The try/catch around JSON.parse and the structure check; r is what
\* JSON.parse made of the extracted text.
CheckParsedData(r, webSources) ==
  IF r.ok
  THEN IF Truthy(r.val) /\ IsArray(Get(r.val, <<"data">>))
       THEN Resolved(FetchResult(Get(r.val, <<"data">>).items, webSources))
       ELSE Rejected(Error(<<ParsePrefix>> \o NotExpectedFormat))
  ELSE Rejected(Error(<<ParsePrefix>> \o r.msg))

ParseModelReply(text, webSources) ==
  CheckParsedData(JSONParse(ExtractJsonText(text)), webSources)

\* Names every object has through Object.prototype: INDICATORS_MAP, an object
\* literal, answers them with a function, whose name is a string.
ObjectPrototypeKeys == {"constructor"}

\* INDICATORS_MAP[key] is not undefined.
HasMetadata(key) == key \in IndicatorKeys \cup ObjectPrototypeKeys

UndefinedNameMessage ==
  <<"Cannot read properties of undefined (reading 'name')">>

\* getEconomicData with the key check after the outbound call instead of
\* before it.
GetEconomicDataEntryCallFirst(keyPresent, indicators) ==
  IF Len(indicators) = 0
  THEN [call |-> FALSE, result |-> Resolved(FetchResult(<<>>, <<>>))]
  ELSE [call |-> TRUE, result |-> Resolved(Null)]

\* getEconomicData before its outbound call: [call, result].  call says
\* whether ai.models.generateContent is invoked.
\* createDynamicPrompt reads INDICATORS_MAP[key].name for every key and throws
\* a TypeError when INDICATORS_MAP[key] is undefined.
GetEconomicDataEntry(keyPresent, indicators) ==
  IF ~keyPresent
  THEN [call |-> FALSE, result |-> Rejected(Error(ConfigErrorMessage))]
  ELSE IF Len(indicators) = 0
  THEN [call |-> FALSE, result |-> Resolved(FetchResult(<<>>, <<>>))]
  ELSE IF \E i \in 1..Len(indicators) : ~HasMetadata(indicators[i])
  THEN [call |-> FALSE, result |-> Rejected(TypeError(UndefinedNameMessage))]
  ELSE [call |-> TRUE, result |-> Resolved(Null)]

\* getEconomicData after generateContent settled.  outcome is
\* [ok, text, grounding, error]: the response, or the rejection of the call.
GetEconomicDataResume(outcome) ==
  IF ~outcome.ok THEN Rejected(outcome.error)
  ELSE ParseModelReply(outcome.text, WebSources(outcome.grounding))

\* A response of the endpoint: its status and its body text.
HttpResponse(status, body) == [status |-> status, body |-> body]

\* res.status(status).json(v).
JsonResponse(status, v) == HttpResponse(status, Stringify(v))

\* The handler's catch answering with the message alone.
HandlerRespondNoDetails(result) ==
  IF result.ok
  THEN JsonResponse(200, result.value)
  ELSE JsonResponse(500, Obj(<<Field(<<"message">>, Str(HandlerFailureMessage))>>))

\* The handler's try/catch around getEconomicData.
HandlerRespond(result) ==
  IF result.ok
  THEN JsonResponse(200, result.value)
  ELSE JsonResponse(500, Obj(<<Field(<<"message">>, Str(HandlerFailureMessage)),
                               Field(<<"details">>, Str(result.error.message))>>))

\* The handler's check of req.body.indicators: list says whether the body
\* holds an array there ("array"), something else ("other") or nothing
\* ("missing").
HandlerRejectsBody(list, indicators) == list # "array" \/ Len(indicators) = 0

BadRequestResponse ==
  JsonResponse(400, Obj(<<Field(<<"message">>, Str(BadRequestMessage))>>))

MethodNotAllowedResponse ==
  JsonResponse(405, Obj(<<Field(<<"message">>, Str(<<"Method Not Allowed">>))>>))

\* The handler's answers before it invokes getEconomicData: the OPTIONS
\* preflight, a method other than POST, a body without a list of keys.
HandlerAnswersEarly(method, list, indicators) ==
  method # "POST" \/ HandlerRejectsBody(list, indicators)

HandlerEarlyResponse(method) ==
  IF method = "OPTIONS" THEN HttpResponse(200, <<>>)
  ELSE IF method # "POST" THEN MethodNotAllowedResponse
  ELSE BadRequestResponse


(***************************************************************************)
(* The data fetch client: fetchEconomicData.                               *)
(***************************************************************************)
FetchErrorPrefix == "An error occurred while fetching the economic data: "
DataFormatMessage == <<"The data format from the API is incorrect.">>
NetworkFailureMessage == <<"Failed to fetch">>
StatusMessage(status) == <<"API request failed with status: ", ToString(status)>>

\* String(v) for the values new Error(v) is handed.
ToStringJs(v) ==
  CASE v.k = "str" -> v.s
    [] v.k = "num" -> <<v.n>>
    [] OTHER -> <<"[object Object]">>

\* response.ok taken to be true whatever the status.
ResponseOkAlways(response) == TRUE

ResponseOk(response) == response.status \in 200..299

\* errorBody.message || errorBody.details || errorMessage: the handler's
\* general message is preferred to the details.
ErrorBodyMessageFirst(p, errorMessage) ==
  IF ~p.ok \/ p.val.k = "null" THEN errorMessage
  ELSE IF Truthy(Get(p.val, <<"message">>))
  THEN ToStringJs(Get(p.val, <<"message">>))
  ELSE IF Truthy(Get(p.val, <<"details">>))
  THEN ToStringJs(Get(p.val, <<"details">>))
  ELSE errorMessage

\* The message thrown for a non-2xx response:
\* errorBody.details || errorBody.message || errorMessage, the default kept
\* when response.json() or the property access throws.
\* p is what response.json() made of the body.
ErrorBodyMessage(p, errorMessage) ==
  IF ~p.ok \/ p.val.k = "null" THEN errorMessage
  ELSE IF Truthy(Get(p.val, <<"details">>))
  THEN ToStringJs(Get(p.val, <<"details">>))
  ELSE IF Truthy(Get(p.val, <<"message">>))
  THEN ToStringJs(Get(p.val, <<"message">>))
  ELSE errorMessage

StatusErrorMessage(response) ==
  ErrorBodyMessage(JSONParse(response.body), StatusMessage(response.status))

\* The body of the try block: what it returns, or the error it throws.
\* outcome is [arrived, response]: the response, or fetch() rejecting.
\* The 2xx path: p is what response.json() made of the body.
CheckPayload(p) ==
  IF ~p.ok THEN Rejected(SyntaxError(p.msg))
  ELSE IF /\ Truthy(p.val)
          /\ IsArray(Get(p.val, <<"data">>))
          /\ IsArray(Get(p.val, <<"sources">>))
  THEN Resolved(p.val)
  ELSE Rejected(Error(DataFormatMessage))

FetchAttempt(outcome) ==
  IF ~outcome.arrived THEN Rejected(TypeError(NetworkFailureMessage))
  ELSE IF ~ResponseOk(outcome.response)
  THEN Rejected(Error(StatusErrorMessage(outcome.response)))
  ELSE CheckPayload(JSONParse(outcome.response.body))

\* The catch block: every thrown value here is an Error and is re-thrown
\* with the context prefix.
Rethrow(r) ==
  IF r.ok THEN r
  ELSE Rejected(Error(<<FetchErrorPrefix>> \o r.error.message))

FetchEconomicData(outcome) == Rethrow(FetchAttempt(outcome))

(***************************************************************************)
(* The presentation layer: App.                                            *)
(***************************************************************************)
PRIMARY_SOURCES ==
  << Source(Str(<<"Bangko Sentral ng Pilipinas (BSP)">>),
            Str(<<"https://www.bsp.gov.ph/">>)),
     Source(Str(<<"Philippine Statistics Authority (PSA)">>),
            Str(<<"https://psa.gov.ph/">>)),
     Source(Str(<<"Asian Development Bank (ADB)">>),
            Str(<<"https://www.adb.org/countries/philippines/main">>)) >>

InitialSelection == <<"pesoDollarRate">>

\* new Date(row.month).getTime() in months since 1970; NaN for an invalid
\* date (an unparseable label, or no month at all).
NaN == -1

MonthTime(label) ==
  CASE label = <<"2024-12">> -> 659
    [] label = <<"2025-01">> -> 660
    [] OTHER -> NaN

DateOf(row) ==
  LET month == Get(row, <<"month">>)
  IN CASE month.k = "str" -> MonthTime(month.s)
       [] month.k = "null" -> 0
       [] OTHER -> NaN

\* The comparator (a, b) => new Date(a.month) - new Date(b.month); a NaN
\* result is taken as +0 by Array.prototype.sort.
Compare(a, b) ==
  IF DateOf(a) = NaN \/ DateOf(b) = NaN THEN 0 ELSE DateOf(a) - DateOf(b)

\* Stable insertion of row into a sorted sequence.
RECURSIVE Insert(_, _)
Insert(sorted, row) ==
  IF sorted = <<>> THEN <<row>>
  ELSE IF Compare(row, sorted[Len(sorted)]) < 0
  THEN Append(Insert(SubSeq(sorted, 1, Len(sorted) - 1), row), sorted[Len(sorted)])
  ELSE Append(sorted, row)

RECURSIVE StableSort(_)
StableSort(rows) ==
  IF rows = <<>> THEN <<>>
  ELSE Insert(StableSort(SubSeq(rows, 1, Len(rows) - 1)), rows[Len(rows)])

\* The comparator is a consistent comparison function for the rows unless
\* an invalid date sits among two different valid ones.
ConsistentComparator(rows) ==
  ~ \E i, j, n \in 1..Len(rows) :
      /\ DateOf(rows[n]) = NaN
      /\ DateOf(rows[i]) # NaN /\ DateOf(rows[j]) # NaN
      /\ DateOf(rows[i]) # DateOf(rows[j])

RowOrders(rows) ==
  { [i \in 1..Len(rows) |-> rows[f[i]]] :
      f \in { g \in [1..Len(rows) -> 1..Len(rows)] :
                \A i, j \in 1..Len(rows) : i # j => g[i] # g[j] } }

\* data.sort(comparator): the stable order; with an inconsistent comparator
\* the order is implementation-defined, any permutation.
SortOutcomes(rows) ==
  IF ConsistentComparator(rows) THEN {StableSort(rows)} ELSE RowOrders(rows)

\* Array.from(new Map(combinedSources.map(s => [s.uri, s])).values()).
RECURSIVE UniqueByUri(_, _)
UniqueByUri(srcs, m) ==
  IF srcs = <<>> THEN MapValues(m)
  ELSE UniqueByUri(Tail(srcs), MapSet(m, Get(Head(srcs), <<"uri">>), Head(srcs)))

CombinedSources(fetchedSources) == UniqueByUri(PRIMARY_SOURCES \o fetchedSources, <<>>)

\* The updater putting a newly selected key in front: [indicatorKey, ...prev].
ToggleIndicatorPrepend(prev, key) ==
  IF \E i \in 1..Len(prev) : prev[i] = key
  THEN SelectSeq(prev, LAMBDA item : item # key)
  ELSE <<key>> \o prev

\* handleIndicatorChange's updater.
ToggleIndicator(prev, key) ==
  IF \E i \in 1..Len(prev) : prev[i] = key
  THEN SelectSeq(prev, LAMBDA item : item # key)
  ELSE Append(prev, key)

\* renderContent without the "No Data Available" return.
RenderContentNoEmptyView(loading, err, rows, selection) ==
  IF loading THEN "Loading"
  ELSE IF Truthy(err) THEN "Error"
  ELSE IF Truthy(rows) THEN "Chart"
  ELSE "Placeholder"

\* renderContent: which of its five returns is taken.
RenderContent(loading, err, rows, selection) ==
  IF loading THEN "Loading"
  ELSE IF Truthy(err) THEN "Error"
  ELSE IF Truthy(rows)
  THEN IF Len(rows.items) = 0 /\ Len(selection) > 0 THEN "NoData" ELSE "Chart"
  ELSE "Placeholder"

(***************************************************************************)
(* getFriendlyErrorMessage: the title and the message of the error view.   *)
(***************************************************************************)
SetupInstructions ==
  <<"The <code>API_KEY</code> is missing on the server. ",
    "If you are the application owner, please go to your deployment platform ",
    "(e.g., Vercel), add an Environment Variable named <code>API_KEY</code> ",
    "with your Gemini API key, and then redeploy the application.">>
UnknownErrorMessage == <<"An unexpected error occurred. Please try again.">>

\* The letters of a lexeme in lower case, for the lexemes that hold the
\* marker phrase in some case; the other lexemes never match it.
ToLowerCase(l) ==
  IF l \in {ConfigMarker, "API_KEY ENVIRONMENT VARIABLE NOT SET",
            "api_key environment variable not set"}
  THEN "api_key environment variable not set"
  ELSE l

\* /API_KEY environment variable not set/i.test(text)
MarkerTest(text) ==
  \E i \in 1..Len(text) : ToLowerCase(text[i]) = ToLowerCase(ConfigMarker)

\* text.match(/{.*}/s): greedy, from the first "{" to the last "}" after
\* it; the empty text stands for no match.
JsonMatch(text) ==
  IF IndexOf(text, "{") # 0 /\ LastIndexOf(text, "}") > IndexOf(text, "{")
  THEN SubSeq(text, IndexOf(text, "{"), LastIndexOf(text, "}"))
  ELSE <<>>

\* errorObj?.error?.message || errorObj?.details || errorObj?.message;
\* undefined when JSON.parse throws.  p is what JSON.parse made of the match.
FriendlyField(p) ==
  IF ~p.ok THEN Undefined
  ELSE IF Truthy(Get(Get(p.val, <<"error">>), <<"message">>))
  THEN Get(Get(p.val, <<"error">>), <<"message">>)
  ELSE IF Truthy(Get(p.val, <<"details">>))
  THEN Get(p.val, <<"details">>)
  ELSE Get(p.val, <<"message">>)

FriendlyRaw(text) ==
  [title |-> "Error Fetching Data", message |-> text, isHtml |-> FALSE]

FriendlyFromField(text, message) ==
  IF Truthy(message) /\ message.k = "str"
  THEN [title |-> "Error Fetching Data", message |-> message.s, isHtml |-> FALSE]
  ELSE FriendlyRaw(text)

FriendlyFromMatch(text, match) ==
  IF match = <<>> THEN FriendlyRaw(text)
  ELSE FriendlyFromField(text, FriendlyField(JSONParse(match)))

\* The marker test moved after the JSON extraction.
GetFriendlyErrorMessageJsonFirst(err) ==
  IF ~Truthy(err)
  THEN [title |-> "An Unknown Error Occurred", message |-> UnknownErrorMessage,
        isHtml |-> FALSE]
  ELSE IF FriendlyFromMatch(err.s, JsonMatch(err.s)) # FriendlyRaw(err.s)
  THEN FriendlyFromMatch(err.s, JsonMatch(err.s))
  ELSE IF MarkerTest(err.s)
  THEN [title |-> "Configuration Error", message |-> SetupInstructions,
        isHtml |-> TRUE]
  ELSE FriendlyRaw(err.s)

\* err is the error state: Null, or Str of the message.
GetFriendlyErrorMessage(err) ==
  IF ~Truthy(err)
  THEN [title |-> "An Unknown Error Occurred", message |-> UnknownErrorMessage,
        isHtml |-> FALSE]
  ELSE IF MarkerTest(err.s)
  THEN [title |-> "Configuration Error", message |-> SetupInstructions,
        isHtml |-> TRUE]
  ELSE FriendlyFromMatch(err.s, JsonMatch(err.s))

(***************************************************************************)
(* EconomicChart: the two Y axes and the axis each series is bound to.     *)
(***************************************************************************)
\* INDICATORS_MAP[key].unit
IndicatorUnit(key) ==
  CASE key = "gdpGrowth" -> "%"
    [] key = "pesoDollarRate" -> "₱"
    [] key = "wtiCrudeOil" -> "$"

\* [...new Set(selectedIndicators.map(key => INDICATORS_MAP[key].unit))]:
\* the distinct units in the order of their first occurrence.
RECURSIVE Units(_)
Units(selection) ==
  IF selection = <<>> THEN <<>>
  ELSE LET before == Units(SubSeq(selection, 1, Len(selection) - 1))
           unit == IndicatorUnit(selection[Len(selection)])
       IN IF \E i \in 1..Len(before) : before[i] = unit
          THEN before
          ELSE Append(before, unit)

\* units[0], undefined for an empty selection.
YAxis1Unit(selection) ==
  IF Len(Units(selection)) > 0 THEN Units(selection)[1] ELSE "undefined"

\* units.length > 1 ? units[1] : null
YAxis2Unit(selection) ==
  IF Len(Units(selection)) > 1 THEN Units(selection)[2] ELSE "null"

GetAxisId(unit, selection) ==
  IF unit = YAxis2Unit(selection) THEN "right" ELSE "left"

\* The Y axes rendered: the left one always, the right one when yAxis2Unit
\* is truthy; each with its unit label.
YAxes(selection) ==
  {[yAxisId |-> "left", unit |-> YAxis1Unit(selection)]}
    \cup (IF YAxis2Unit(selection) # "null"
          THEN {[yAxisId |-> "right", unit |-> YAxis2Unit(selection)]}
          ELSE {})

\* The areas rendered, one per selected indicator, each with the axis it
\* is bound to.
Series(selection) ==
  [i \in 1..Len(selection) |->
     [dataKey |-> selection[i],
      yAxisId |-> GetAxisId(IndicatorUnit(selection[i]), selection)]]

(***************************************************************************)
(* handleExportCSV: the text of the CSV file.                              *)
(***************************************************************************)
\* INDICATORS_MAP[key].name
IndicatorName(key) ==
  CASE key = "gdpGrowth" -> "GDP Growth"
    [] key = "pesoDollarRate" -> "Peso-Dollar (End of Period)"
    [] key = "wtiCrudeOil" -> "WTI Crude Oil"

\* parts.join(sep) for parts that are already strings.
RECURSIVE Join(_, _)
Join(parts, sep) ==
  IF Len(parts) = 0 THEN <<>>
  ELSE IF Len(parts) = 1 THEN parts[1]
  ELSE parts[1] \o <<sep>> \o Join(Tail(parts), sep)

\* `${v}`: the string a template literal makes of a value.
TemplateText(v) ==
  CASE v.k = "str" -> v.s
    [] v.k = "num" -> <<v.n>>
    [] v.k = "null" -> <<"null">>
    [] v.k = "undefined" -> <<"undefined">>
    [] OTHER -> <<"[object Object]">>

\* The string Array.prototype.join makes of one element.
JoinText(v) ==
  IF v.k \in {"null", "undefined"} THEN <<>> ELSE TemplateText(v)

\* v || '' in place of v ?? '': a zero is exported as an empty field.
CsvValueFalsyEmpty(row, key) ==
  IF Truthy(Get(row, <<key>>)) THEN Get(row, <<key>>) ELSE Str(<<>>)

\* row[key] ?? ''
CsvValue(row, key) ==
  IF Get(row, <<key>>).k \in {"null", "undefined"}
  THEN Str(<<>>)
  ELSE Get(row, <<key>>)

\* Headers in the catalog's order instead of the selection's.
CsvHeadersCatalogOrder(selection) ==
  Join(<<<<"Month">>>>
         \o [i \in 1..Len(selection) |->
              <<Quote,
                IndicatorName(
                  Catalog[CHOOSE c \in 1..Len(Catalog) :
                            /\ Includes(selection, <<Catalog[c]>>)
                            /\ Cardinality({d \in 1..c :
                                  Includes(selection, <<Catalog[d]>>)}) = i]),
                Quote>>],
       ",")

CsvHeaders(selection) ==
  Join(<<<<"Month">>>>
         \o [i \in 1..Len(selection) |->
              <<Quote, IndicatorName(selection[i]), Quote>>],
       ",")

CsvRow(row, selection) ==
  Join(<<<<Quote>> \o TemplateText(Get(row, <<"month">>)) \o <<Quote>>>>
         \o [i \in 1..Len(selection) |-> JoinText(CsvValue(row, selection[i]))],
       ",")

CsvContent(rows, selection) ==
  Join(<<CsvHeaders(selection)>>
         \o [i \in 1..Len(rows) |-> CsvRow(rows[i], selection)],
       "\n")


(***************************************************************************)
(* The explored inputs: what the generative model may reply, and what the  *)
(* endpoint may answer when the handler is not the one answering.          *)
(***************************************************************************)
RowLabels == {<<"2024-12">>, <<"2025-01">>, <<"n/a">>}
Row(label) == Obj(<<Field(<<"month">>, Str(label))>>)
RowValues == {Row(label) : label \in RowLabels} \cup {Obj(<<>>)}
RowLists == UNION {[1..n -> RowValues] : n \in 0..MaxRows}

DataObject(rows) == Obj(<<Field(<<"data">>, Arr(rows))>>)
DataObjects == {DataObject(rows) : rows \in RowLists}

\* JSON values with no array at data.
OtherValues ==
  { Obj(<<>>),
    Obj(<<Field(<<"data">>, Null)>>),
    Obj(<<Field(<<"data">>, Obj(<<>>))>>),
    Obj(<<Field(<<"rows">>, Arr(<<>>))>>),
    Arr(<<>>), Null, Num("5.7"), Str(<<"data">>) }

\* A markdown code fence; the lexeme "~~~" stands for its three backquotes.
FenceOpen == <<"~~~", "json", "\n">>
FenceClose == <<"\n", "~~~">>
Prefixes ==
  { <<>>,
    <<"Here is the data you asked for:", "\n">>,
    <<"Values in ", "{", "braces", "}", " are estimates.", "\n">> }
Suffixes ==
  { <<>>,
    <<"\n", "Hope this helps.">>,
    <<"\n", "Note: ", "{", "}", " marks a missing value.">> }

Fenced(pre, v, post) == pre \o FenceOpen \o Stringify(v) \o FenceClose \o post

FencedTexts ==
  {Fenced(pre, v, post) : pre \in Prefixes, v \in DataObjects, post \in Suffixes}

UnparseableTexts ==
  { <<>>,
    <<"I could not find any data.">>,
    <<"{", Quote, "data", Quote, ":", "[">>,
    <<"{", "braces", "}">> }

CleanTexts == {Stringify(v) : v \in DataObjects}
Texts ==
  CleanTexts \cup {Stringify(v) : v \in OtherValues}
    \cup FencedTexts \cup UnparseableTexts

ChunkUris == {Undefined, Str(<<"https://bsp.gov.ph">>), Str(<<"https://psa.gov.ph/">>)}
ChunkTitles == {Undefined, Str(<<"BSP">>), Str(<<"BSP Dup">>)}
Chunks == [uri : ChunkUris, title : ChunkTitles]
ChunkLists == UNION {[1..n -> Chunks] : n \in 0..MaxChunks}

NoGrounding == [present |-> FALSE, chunks |-> <<>>]
Grounding(chunks) == [present |-> TRUE, chunks |-> chunks]
Groundings == {NoGrounding} \cup {Grounding(chunks) : chunks \in ChunkLists}
FewGroundings ==
  { NoGrounding,
    Grounding(<<[uri |-> Str(<<"https://bsp.gov.ph">>), title |-> Str(<<"BSP">>)]>>) }

\* generateContent settling: a response, or the call rejecting.
ModelResponse(text, grounding) ==
  [ok |-> TRUE, text |-> text, grounding |-> grounding, error |-> Error(<<>>)]
ModelRejection(e) ==
  [ok |-> FALSE, text |-> <<>>, grounding |-> NoGrounding, error |-> e]

SdkErrors == {Error(<<"fetch failed">>)}

AllModelOutcomes ==
  {ModelResponse(t, g) : t \in Texts, g \in FewGroundings}
    \cup {ModelResponse(Stringify(DataObject(<<>>)), g) : g \in Groundings}
    \cup {ModelRejection(e) : e \in SdkErrors}

ViewModelOutcomes ==
  {ModelResponse(t, g) :
     t \in CleanTexts \cup {<<"I could not find any data.">>},
     g \in FewGroundings}
    \cup {ModelRejection(e) : e \in SdkErrors}

\* Answers of the endpoint that do not come from the handler above (the
\* hosting platform's own error page, a body of another shape).
ForeignResponses ==
  { HttpResponse(502, <<"<html>", "Bad Gateway", "</html>">>),
    HttpResponse(504, <<>>),
    HttpResponse(404, Stringify(Obj(<<Field(<<"message">>, Str(<<"Not Found">>))>>))),
    HttpResponse(500, Stringify(Obj(<<Field(<<"message">>, Str(DataFormatMessage))>>))),
    HttpResponse(500, Stringify(Null)),
    HttpResponse(500, Stringify(FetchResult(<<Row(<<"2025-01">>)>>, <<>>))),
    HttpResponse(200, <<"<html>", "OK", "</html>">>),
    HttpResponse(200, Stringify(Null)),
    HttpResponse(200, Stringify(Obj(<<>>))),
    HttpResponse(200, Stringify(DataObject(<<>>))),
    HttpResponse(200, Stringify(Obj(<<Field(<<"sources">>, Arr(<<>>))>>))),
    HttpResponse(200, Stringify(Obj(<<Field(<<"data">>, Arr(<<>>)),
                                      Field(<<"sources">>, Str(<<"none">>))>>))),
    HttpResponse(200, Stringify(Obj(<<Field(<<"data">>, Obj(<<>>)),
                                      Field(<<"sources">>, Arr(<<>>))>>))),
    HttpResponse(201, Stringify(FetchResult(<<Row(<<"2025-01">>)>>, <<>>))) }

(***************************************************************************)
(* State.                                                                  *)
(***************************************************************************)
VARIABLES
  selectedIndicators,  \* App: the selected indicator keys, in order
  data,                \* App: Null, or Arr of the loaded rows
  sources,             \* App: the sources shown
  isLoading,           \* App: the loading flag
  error,               \* App: Null, or Str of the error message
  mounted,             \* whether the mount effect has run
  inflight,            \* the exchanges with the relay that have not settled
  apiKey,              \* relay: whether process.env.API_KEY is set
  relayTrace,          \* the relay's handling of the current fetch
  clientTrace,         \* how fetchEconomicData settled for the current fetch
  download             \* the CSV exports asked for since the latest loadData

vars ==
  << selectedIndicators, data, sources, isLoading, error, mounted,
     inflight, apiKey, relayTrace, clientTrace, download >>

appVars ==
  <<selectedIndicators, data, sources, isLoading, error, mounted, download>>

NoResponse == HttpResponse(0, <<>>)
NoOutcome == ModelRejection(Error(<<>>))

\* One invocation of fetchEconomicData on its way: fetches counts its calls
\* of fetch(), calls the relay's calls of the model for it; pending records
\* how many earlier invocations had not completed when this one was made.
Request(indicators) ==
  [stage |-> "request", indicators |-> indicators, calls |-> 0,
   response |-> NoResponse, pending |-> Cardinality(inflight), fetches |-> 1,
   method |-> "POST", list |-> "array"]

NoResult == Rejected(Error(<<>>))

\* The relay's record of one request: whether getEconomicData was invoked
\* and with the key present, the outbound calls made, what generateContent
\* settled with, what getEconomicData settled with, and the response sent.
NoRelayTrace ==
  [done |-> FALSE, invoked |-> FALSE, keyPresent |-> FALSE, calls |-> 0,
   called |-> FALSE, outcome |-> NoOutcome, result |-> NoResult,
   response |-> NoResponse]
\* The client's record of one fetch: what fetch() settled with, which of
\* the failure causes applied, how fetchEconomicData settled, and how many
\* times it had called fetch(), and the indicators it was called with.
NoClientTrace ==
  [settled |-> FALSE, cause |-> "none",
   outcome |-> [arrived |-> FALSE, response |-> NoResponse],
   result |-> NoResult, fetches |-> 0, indicators |-> <<>>]
\* The exports asked for since the latest loadData: whether handleExportCSV
\* ran, whether it started a download, and the rows, the selection and the
\* text of that download.
NoDownload ==
  [requested |-> FALSE, started |-> FALSE, rows |-> <<>>, selection |-> <<>>,
   content |-> <<>>]

Init ==
  /\ selectedIndicators = InitialSelection
  /\ data = Null
  /\ sources = PRIMARY_SOURCES
  /\ isLoading = TRUE
  /\ error = Null
  /\ mounted = FALSE
  /\ inflight = {}
  /\ apiKey \in BOOLEAN
  /\ relayTrace = NoRelayTrace
  /\ clientTrace = NoClientTrace
  /\ download = NoDownload

(***************************************************************************)
(* App: loadData up to its await (or its early return).                    *)
(***************************************************************************)
\* loadData without setError(null).
LoadDataKeepError(selection) ==
  IF Len(selection) = 0
  THEN /\ data' = Arr(<<>>)
       /\ sources' = PRIMARY_SOURCES
       /\ isLoading' = FALSE
       /\ relayTrace' = NoRelayTrace
       /\ clientTrace' = NoClientTrace
       /\ download' = NoDownload
       /\ UNCHANGED <<inflight, error>>
  ELSE /\ isLoading' = TRUE
       /\ data' = Null
       /\ inflight' = inflight \cup {Request(selection)}
       /\ relayTrace' = NoRelayTrace
       /\ clientTrace' = NoClientTrace
       /\ download' = NoDownload
       /\ UNCHANGED <<sources, error>>

\* loadData without setIsLoading(true).
LoadDataNoLoadingFlag(selection) ==
  IF Len(selection) = 0
  THEN /\ data' = Arr(<<>>)
       /\ sources' = PRIMARY_SOURCES
       /\ isLoading' = FALSE
       /\ error' = Null
       /\ relayTrace' = NoRelayTrace
       /\ clientTrace' = NoClientTrace
       /\ download' = NoDownload
       /\ UNCHANGED inflight
  ELSE /\ error' = Null
       /\ data' = Null
       /\ inflight' = inflight \cup {Request(selection)}
       /\ relayTrace' = NoRelayTrace
       /\ clientTrace' = NoClientTrace
       /\ download' = NoDownload
       /\ UNCHANGED <<sources, isLoading>>

LoadData(selection) ==
  IF Len(selection) = 0
  THEN /\ data' = Arr(<<>>)
       /\ sources' = PRIMARY_SOURCES
       /\ isLoading' = FALSE
       /\ error' = Null
       /\ relayTrace' = NoRelayTrace
       /\ clientTrace' = NoClientTrace
       /\ download' = NoDownload
       /\ UNCHANGED inflight
  ELSE /\ isLoading' = TRUE
       /\ error' = Null
       /\ data' = Null
       /\ inflight' = inflight \cup {Request(selection)}
       /\ relayTrace' = NoRelayTrace
       /\ clientTrace' = NoClientTrace
       /\ download' = NoDownload
       /\ UNCHANGED sources

\* useEffect(() => { loadData(); }, []): once, with the first render's closure.
Mount ==
  /\ ~mounted
  /\ mounted' = TRUE
  /\ LoadData(InitialSelection)
  /\ UNCHANGED <<selectedIndicators, apiKey>>

\* The Retry button of the error view.
Retry ==
  /\ mounted
  /\ RenderContent(isLoading, error, data, selectedIndicators) = "Error"
  /\ LoadData(selectedIndicators)
  /\ UNCHANGED <<selectedIndicators, mounted, apiKey>>

\* Variant: the fetch button stays enabled while a fetch is in progress.
FetchDataWhileLoading ==
  /\ mounted
  /\ Len(selectedIndicators) # 0
  /\ LoadData(selectedIndicators)
  /\ UNCHANGED <<selectedIndicators, mounted, apiKey>>

\* The selector's fetch button (onFetchData), disabled by isFetchDisabled.
FetchData ==
  /\ mounted
  /\ ~(isLoading \/ Len(selectedIndicators) = 0)
  /\ LoadData(selectedIndicators)
  /\ UNCHANGED <<selectedIndicators, mounted, apiKey>>

\* onFetchData={loadData}: the callback as the App hands it to the selector,
\* invoked while a fetch is pending; loadData itself checks nothing.
LoadDataWhilePending ==
  /\ mounted
  /\ inflight # {}
  /\ Cardinality(inflight) < MaxInFlight
  /\ Len(selectedIndicators) # 0
  /\ LoadData(selectedIndicators)
  /\ UNCHANGED <<selectedIndicators, mounted, apiKey>>

\* handleIndicatorChange followed by loadData for the new selection, as an
\* effect depending on the selection would run it.
HandleIndicatorChangeRefetch(key) ==
  /\ mounted
  /\ Cardinality(inflight) < MaxInFlight
  /\ selectedIndicators' = ToggleIndicator(selectedIndicators, key)
  /\ LoadData(ToggleIndicator(selectedIndicators, key))
  /\ UNCHANGED <<mounted, apiKey>>

\* onIndicatorChange(key) for a key of the selector's list.
HandleIndicatorChange(key) ==
  /\ mounted
  /\ selectedIndicators' = ToggleIndicator(selectedIndicators, key)
  /\ UNCHANGED <<data, sources, isLoading, error, mounted, inflight, apiKey, download,
                 relayTrace, clientTrace>>

\* fetchEconomicData called with a list of the caller's own choosing, the
\* empty one included, by a caller that treats the outcome as loadData does:
\* it calls fetch() whatever the list holds.
FetchEconomicDataCall(indicators) ==
  /\ mounted
  /\ inflight = {}
  /\ ~isLoading
  /\ isLoading' = TRUE
  /\ error' = Null
  /\ data' = Null
  /\ inflight' = {Request(indicators)}
  /\ relayTrace' = NoRelayTrace
  /\ clientTrace' = NoClientTrace
  /\ download' = NoDownload
  /\ UNCHANGED <<selectedIndicators, sources, mounted, apiKey>>

\* handleExportCSV returning early only for if (!data): an empty list of
\* rows is exported as a file of the header alone.
HandleExportCSVNullOnly ==
  /\ mounted
  /\ download' =
       IF ~Truthy(data)
       THEN [download EXCEPT !.requested = TRUE]
       ELSE [requested |-> TRUE, started |-> TRUE, rows |-> data.items,
             selection |-> selectedIndicators,
             content |-> CsvContent(data.items, selectedIndicators)]
  /\ UNCHANGED <<selectedIndicators, data, sources, isLoading, error, mounted,
                 inflight, apiKey, relayTrace, clientTrace>>

\* handleExportCSV, from the export button or from any other caller: the
\* handler itself returns early when there are no rows.
HandleExportCSV ==
  /\ mounted
  /\ download' =
       IF ~Truthy(data) \/ Len(data.items) = 0
       THEN [download EXCEPT !.requested = TRUE]
       ELSE [requested |-> TRUE, started |-> TRUE, rows |-> data.items,
             selection |-> selectedIndicators,
             content |-> CsvContent(data.items, selectedIndicators)]
  /\ UNCHANGED <<selectedIndicators, data, sources, isLoading, error, mounted,
                 inflight, apiKey, relayTrace, clientTrace>>

(***************************************************************************)
(* Relay: the handler up to the outbound call, and from its settling on.   *)
(***************************************************************************)
Respond(m, response) ==
  [m EXCEPT !.stage = "response", !.response = response]

RelayTrace(m, invoked, called, outcome, result, response) ==
  [done |-> TRUE, invoked |-> invoked, keyPresent |-> apiKey, calls |-> m.calls,
   called |-> called, outcome |-> outcome, result |-> result,
   response |-> response]

RelayStart(m) ==
  /\ m.stage = "request"
  /\ IF HandlerAnswersEarly(m.method, m.list, m.indicators)
     THEN /\ inflight' =
               (inflight \ {m}) \cup {Respond(m, HandlerEarlyResponse(m.method))}
          /\ relayTrace' =
               RelayTrace(m, FALSE, FALSE, NoOutcome, NoResult,
                          HandlerEarlyResponse(m.method))
     ELSE LET entry == GetEconomicDataEntry(apiKey, m.indicators)
          IN IF entry.call
             THEN /\ inflight' = (inflight \ {m})
                       \cup {[m EXCEPT !.stage = "model", !.calls = m.calls + 1]}
                  /\ UNCHANGED relayTrace
             ELSE LET response == HandlerRespond(entry.result)
                  IN /\ inflight' = (inflight \ {m}) \cup {Respond(m, response)}
                     /\ relayTrace' =
                          RelayTrace(m, TRUE, FALSE, NoOutcome, entry.result, response)
  /\ UNCHANGED <<appVars, apiKey, clientTrace>>

ModelReply(m, outcomes) ==
  /\ m.stage = "model"
  /\ \E outcome \in outcomes :
       \E result \in {GetEconomicDataResume(outcome)} :
         /\ inflight' = (inflight \ {m}) \cup {Respond(m, HandlerRespond(result))}
         /\ relayTrace' =
              RelayTrace(m, TRUE, TRUE, outcome, result, HandlerRespond(result))
  /\ UNCHANGED <<appVars, apiKey, clientTrace>>

\* An HTTP client other than fetchEconomicData sends a request to the
\* endpoint, and later takes the handler's response.
HttpRequest(method, list, indicators) ==
  [Request(indicators) EXCEPT !.method = method, !.list = list]

SendRequest(request) ==
  /\ inflight = {}
  /\ inflight' = {request}
  /\ relayTrace' = NoRelayTrace
  /\ UNCHANGED <<appVars, apiKey, clientTrace>>

ReceiveResponse(m) ==
  /\ m.stage = "response"
  /\ inflight' = inflight \ {m}
  /\ UNCHANGED <<appVars, apiKey, relayTrace, clientTrace>>

\* The endpoint answers, but not through the handler.
ForeignResponse(m) ==
  /\ m.stage = "request"
  /\ \E response \in ForeignResponses :
       inflight' = (inflight \ {m}) \cup {Respond(m, response)}
  /\ UNCHANGED <<appVars, apiKey, relayTrace, clientTrace>>

(***************************************************************************)
(* Client and App: fetchEconomicData settling and the rest of loadData.    *)
(***************************************************************************)
CauseOf(outcome, result) ==
  IF ~outcome.arrived THEN "network"
  ELSE IF ~ResponseOk(outcome.response) THEN "status"
  ELSE IF result.ok THEN "none"
  ELSE "payload"

\* loadData without its finally block: a failure leaves isLoading set.
SettleNoFinally(m, outcome, result) ==
  /\ clientTrace' =
       [settled |-> TRUE, cause |-> CauseOf(outcome, result),
        outcome |-> outcome, result |-> result, fetches |-> m.fetches,
        indicators |-> m.indicators]
  /\ IF result.ok
     THEN /\ \E sortedData \in SortOutcomes(Get(result.value, <<"data">>).items) :
               data' = Arr(sortedData)
          /\ sources' = CombinedSources(Get(result.value, <<"sources">>).items)
          /\ isLoading' = FALSE
          /\ UNCHANGED error
     ELSE /\ error' = Str(result.error.message)
          /\ UNCHANGED <<data, sources, isLoading>>
  /\ inflight' = inflight \ {m}
  /\ UNCHANGED <<selectedIndicators, mounted, apiKey, relayTrace, download>>

\* loadData with a catch that sends the request again after a failure.
SettleAutoRetry(m, outcome, result) ==
  /\ clientTrace' =
       [settled |-> TRUE, cause |-> CauseOf(outcome, result),
        outcome |-> outcome, result |-> result, fetches |-> m.fetches,
        indicators |-> m.indicators]
  /\ IF result.ok
     THEN /\ \E sortedData \in SortOutcomes(Get(result.value, <<"data">>).items) :
               data' = Arr(sortedData)
          /\ sources' = CombinedSources(Get(result.value, <<"sources">>).items)
          /\ inflight' = inflight \ {m}
          /\ UNCHANGED error
     ELSE /\ error' = Str(result.error.message)
          /\ inflight' = (inflight \ {m}) \cup {Request(m.indicators)}
          /\ UNCHANGED <<data, sources>>
  /\ isLoading' = FALSE
  /\ UNCHANGED <<selectedIndicators, mounted, apiKey, relayTrace, download>>

\* loadData from its await on; result is how fetchEconomicData settled.
Settle(m, outcome, result) ==
  /\ clientTrace' =
       [settled |-> TRUE, cause |-> CauseOf(outcome, result),
        outcome |-> outcome, result |-> result, fetches |-> m.fetches,
        indicators |-> m.indicators]
  /\ IF result.ok
     THEN /\ \E sortedData \in SortOutcomes(Get(result.value, <<"data">>).items) :
               data' = Arr(sortedData)
          /\ sources' = CombinedSources(Get(result.value, <<"sources">>).items)
          /\ UNCHANGED error
     ELSE /\ error' = Str(result.error.message)
          /\ UNCHANGED <<data, sources>>
  /\ isLoading' = FALSE
  /\ inflight' = inflight \ {m}
  /\ UNCHANGED <<selectedIndicators, mounted, apiKey, relayTrace, download>>

\* fetchEconomicData sending the request once more after a non-2xx response.
FetchSettleRetryOnce(m) ==
  /\ m.stage = "response"
  /\ IF ~ResponseOk(m.response) /\ m.fetches = 1
     THEN /\ inflight' =
               (inflight \ {m})
                 \cup {[m EXCEPT !.stage = "request", !.response = NoResponse,
                                 !.calls = 0, !.fetches = 2]}
          /\ UNCHANGED <<appVars, apiKey, relayTrace, clientTrace>>
     ELSE \E result \in
            {FetchEconomicData([arrived |-> TRUE, response |-> m.response])} :
            Settle(m, [arrived |-> TRUE, response |-> m.response], result)

FetchSettle(m) ==
  /\ m.stage = "response"
  /\ \E result \in {FetchEconomicData([arrived |-> TRUE, response |-> m.response])} :
       Settle(m, [arrived |-> TRUE, response |-> m.response], result)

\* fetch() rejects: the request never reaches the endpoint.
FetchRejected(m) ==
  /\ m.stage = "request"
  /\ \E result \in {FetchEconomicData([arrived |-> FALSE, response |-> NoResponse])} :
       Settle(m, [arrived |-> FALSE, response |-> NoResponse], result)

(***************************************************************************)
(* Specifications.  Spec is the dashboard with every user action; SpecRelay*)
(* is one fetch after another through the relay, over the wider set of     *)
(* model replies.                                                          *)
(***************************************************************************)
Next ==
  \/ Mount
  \/ Retry
  \/ FetchData
  \/ \E key \in IndicatorKeys : HandleIndicatorChange(key)
  \/ \E m \in inflight : RelayStart(m)
  \/ \E m \in inflight : ModelReply(m, ViewModelOutcomes)
  \/ \E m \in inflight : ForeignResponse(m)
  \/ \E m \in inflight : FetchSettle(m)
  \/ \E m \in inflight : FetchRejected(m)

Spec == Init /\ [][Next]_vars

NextRelay ==
  \/ Mount
  \/ Retry
  \/ \E m \in inflight : RelayStart(m)
  \/ \E m \in inflight : ModelReply(m, AllModelOutcomes)
  \/ \E m \in inflight : FetchSettle(m)

SpecRelay == Init /\ [][NextRelay]_vars

\* The dashboard over two of the indicators and a few replies of the model,
\* with the scheduling the platform guarantees: the mount effect runs after
\* the first render, the relay and the model answer, and the promise of
\* fetch() settles, so each step of an exchange that can be taken is
\* eventually taken.  The user's actions are under no such obligation.
LiveKeys == {"gdpGrowth", "pesoDollarRate"}

LiveModelOutcomes ==
  { ModelResponse(Stringify(DataObject(<<>>)), NoGrounding),
    ModelResponse(Stringify(DataObject(<<Row(<<"2025-01">>), Row(<<"2024-12">>)>>)),
                  NoGrounding),
    ModelResponse(<<"I could not find any data.">>, NoGrounding) }
    \cup {ModelRejection(e) : e \in SdkErrors}

Exchange ==
  \/ \E m \in inflight : RelayStart(m)
  \/ \E m \in inflight : ModelReply(m, LiveModelOutcomes)
  \/ \E m \in inflight : ForeignResponse(m)
  \/ \E m \in inflight : FetchSettle(m)
  \/ \E m \in inflight : FetchRejected(m)

NextLive ==
  \/ Mount
  \/ Retry
  \/ FetchData
  \/ \E key \in LiveKeys : HandleIndicatorChange(key)
  \/ Exchange

SpecLive == Init /\ [][NextLive]_vars /\ WF_vars(Mount) /\ WF_vars(Exchange)

\* SpecOverlap is the dashboard whose fetch callback can also be invoked while
\* a fetch is pending.
NextOverlap ==
  \/ Mount
  \/ Retry
  \/ FetchData
  \/ LoadDataWhilePending
  \/ \E key \in LiveKeys : HandleIndicatorChange(key)
  \/ Exchange

SpecOverlap == Init /\ [][NextOverlap]_vars

\* SpecClient is the dashboard together with direct callers of
\* fetchEconomicData.
CallerLists == {<<>>, <<"gdpGrowth">>}

NextClient ==
  \/ Mount
  \/ Retry
  \/ FetchData
  \/ \E key \in LiveKeys : HandleIndicatorChange(key)
  \/ \E indicators \in CallerLists : FetchEconomicDataCall(indicators)
  \/ Exchange

SpecClient == Init /\ [][NextClient]_vars

\* SpecHandler is the relay's handler answering any HTTP client: requests of
\* other methods, bodies without a list, and lists holding keys that are not
\* in the catalog.
HttpRequests ==
  { HttpRequest("POST", "array", <<"gdpGrowth">>),
    HttpRequest("POST", "array", <<>>),
    HttpRequest("POST", "missing", <<>>),
    HttpRequest("POST", "other", <<>>),
    HttpRequest("POST", "array", <<"gdpGrowth", "bogus">>),
    HttpRequest("POST", "array", <<"constructor">>),
    HttpRequest("OPTIONS", "missing", <<>>),
    HttpRequest("GET", "missing", <<>>) }

NextHandler ==
  \/ \E request \in HttpRequests : SendRequest(request)
  \/ \E m \in inflight : RelayStart(m)
  \/ \E m \in inflight : ModelReply(m, AllModelOutcomes)
  \/ \E m \in inflight : ReceiveResponse(m)

SpecHandler == Init /\ [][NextHandler]_vars

\* SpecErrors is the dashboard whose fetches all fail: the model call is
\* rejected with messages that hold plain text, JSON objects, text around
\* JSON objects, and the marker phrase in another case.
ErrorObjects ==
  { Obj(<<Field(<<"error">>,
                Obj(<<Field(<<"message">>, Str(<<"quota exceeded">>)),
                      Field(<<"status">>, Str(<<"RESOURCE_EXHAUSTED">>))>>))>>),
    Obj(<<Field(<<"message">>, Str(<<"general">>)),
          Field(<<"details">>, Str(<<"detailed">>))>>),
    Obj(<<Field(<<"message">>, Str(<<"general">>))>>),
    Obj(<<Field(<<"message">>, Str(<<"general">>)),
          Field(<<"details">>, Num("5.5"))>>),
    Obj(<<Field(<<"message">>, Str(<<>>))>>),
    Obj(<<Field(<<"code">>, Num("5.5"))>>) }

ErrorTexts ==
  {Stringify(o) : o \in ErrorObjects}
    \cup {<<"got status: 429. ">> \o Stringify(o) : o \in ErrorObjects}
    \cup { <<"fetch failed">>,
           <<"{", "not json", "}">>,
           <<"}", " then ", "{">>,
           Stringify(Obj(<<Field(<<"message">>, Str(<<"first">>))>>))
             \o <<" and ">>
             \o Stringify(Obj(<<Field(<<"message">>, Str(<<"second">>))>>)),
           <<"API_KEY ENVIRONMENT VARIABLE NOT SET", ": ">>
             \o Stringify(Obj(<<Field(<<"message">>, Str(<<"general">>))>>)) }

ErrorModelOutcomes == {ModelRejection(Error(t)) : t \in ErrorTexts}

NextErrors ==
  \/ Mount
  \/ Retry
  \/ \E key \in LiveKeys : HandleIndicatorChange(key)
  \/ \E m \in inflight : RelayStart(m)
  \/ \E m \in inflight : ModelReply(m, ErrorModelOutcomes)
  \/ \E m \in inflight : FetchSettle(m)

SpecErrors == Init /\ [][NextErrors]_vars

\* SpecExport is the dashboard with the CSV export, over replies whose rows
\* hold a value, a zero, a null and no value at all for an indicator.
ExportRows ==
  << Obj(<<Field(<<"month">>, Str(<<"2024-12">>)),
           Field(<<"gdpGrowth">>, Num("5.5")),
           Field(<<"pesoDollarRate">>, Null)>>),
     Obj(<<Field(<<"month">>, Str(<<"2025-01">>)),
           Field(<<"gdpGrowth">>, Num("0"))>>) >>

ExportModelOutcomes ==
  { ModelResponse(Stringify(DataObject(ExportRows)), NoGrounding),
    ModelResponse(Stringify(DataObject(<<ExportRows[2]>>)), NoGrounding),
    ModelResponse(Stringify(DataObject(<<>>)), NoGrounding),
    ModelRejection(Error(<<"quota exceeded">>)) }

NextExport ==
  \/ Mount
  \/ Retry
  \/ FetchData
  \/ \E key \in IndicatorKeys : HandleIndicatorChange(key)
  \/ HandleExportCSV
  \/ \E m \in inflight : RelayStart(m)
  \/ \E m \in inflight : ModelReply(m, ExportModelOutcomes)
  \/ \E m \in inflight : FetchSettle(m)
  \/ \E m \in inflight : FetchRejected(m)

SpecExport == Init /\ [][NextExport]_vars

\* SpecSort is the dashboard fetching again and again, the model replying
\* with any list of up to MaxSortRows records.
SortRowLists == UNION {[1..n -> RowValues] : n \in 0..MaxSortRows}

SortModelOutcomes ==
  {ModelResponse(Stringify(DataObject(rows)), NoGrounding) : rows \in SortRowLists}

NextSort ==
  \/ Mount
  \/ Retry
  \/ FetchData
  \/ \E m \in inflight : RelayStart(m)
  \/ \E m \in inflight : ModelReply(m, SortModelOutcomes)
  \/ \E m \in inflight : FetchSettle(m)

SpecSort == Init /\ [][NextSort]_vars

(***************************************************************************)
(* Properties.                                                             *)
(***************************************************************************)
ConfigurationFailure == Rejected(Error(ConfigErrorMessage))

\* C1: when the API key is not configured, every invocation of
\* getEconomicData fails with the configuration error, whose message
\* contains the marker, and no outbound call to the model is made or
\* pending in that invocation.
C1_MissingKeyFailsBeforeCall ==
  /\ ~apiKey => \A m \in inflight : m.stage # "model" /\ m.calls = 0
  /\ (relayTrace.done /\ relayTrace.invoked /\ ~relayTrace.keyPresent) =>
       /\ relayTrace.calls = 0
       /\ ~relayTrace.called
       /\ ~relayTrace.result.ok
       /\ Includes(relayTrace.result.error.message, <<ConfigMarker>>)
       /\ relayTrace.result = ConfigurationFailure

\* An invocation without the key has been answered.
C1_Witness ==
  /\ relayTrace.done /\ relayTrace.invoked /\ ~relayTrace.keyPresent
  /\ relayTrace.response.status = 500

\* The relay has handled a model reply made of J in a fenced block between
\* pre and post.
FencedReplyHandled(pre, J, post) ==
  /\ relayTrace.done /\ relayTrace.called /\ relayTrace.outcome.ok
  /\ relayTrace.outcome.text = Fenced(pre, J, post)

\* getEconomicData returned the data that the reply consisting of J alone
\* yields.
SameDataAsClean(J) ==
  /\ relayTrace.result.ok
  /\ ParseModelReply(Stringify(J), <<>>).ok
  /\ Get(relayTrace.result.value, <<"data">>)
       = Get(ParseModelReply(Stringify(J), <<>>).value, <<"data">>)
  /\ Get(relayTrace.result.value, <<"data">>) = Get(J, <<"data">>)

HasLexeme(s, c) == \E i \in 1..Len(s) : s[i] = c

\* C2 as stated: for every JSON object J with an array at data, a reply made
\* of J in a fenced code block with leading and/or trailing prose is
\* extracted successfully and yields the same data as the reply made of J
\* alone.
C2_FencedReplySameAsClean ==
  \A pre \in Prefixes, J \in DataObjects, post \in Suffixes :
    FencedReplyHandled(pre, J, post) => SameDataAsClean(J)

\* C2, amended: the same, for prose in which no "{" precedes the fenced
\* block and no "}" follows it.
C2_FencedReplySameAsCleanBraceFree ==
  \A pre \in Prefixes, J \in DataObjects, post \in Suffixes :
    (/\ FencedReplyHandled(pre, J, post)
     /\ ~HasLexeme(pre, "{")
     /\ ~HasLexeme(post, "}")) => SameDataAsClean(J)

\* A reply with prose on both sides of a fenced block of two rows has been
\* extracted.
C2_Witness ==
  \E pre \in Prefixes, J \in DataObjects, post \in Suffixes :
    /\ FencedReplyHandled(pre, J, post)
    /\ pre # <<>> /\ post # <<>>
    /\ ~HasLexeme(pre, "{") /\ ~HasLexeme(post, "}")
    /\ Len(Get(J, <<"data">>).items) = MaxRows
    /\ relayTrace.result.ok

\* generateContent returned a reply and getEconomicData has settled.
ReplyHandled ==
  relayTrace.done /\ relayTrace.called /\ relayTrace.outcome.ok

\* What JSON.parse makes of the text extracted from the handled reply.
ParsedReply == JSONParse(ExtractJsonText(relayTrace.outcome.text))

C3_WitnessNoArray ==
  /\ ReplyHandled /\ clientTrace.settled
  /\ relayTrace.outcome.text = Stringify(Obj(<<Field(<<"data">>, Obj(<<>>))>>))
  /\ ~relayTrace.result.ok

\* The chunks of the handled reply that carry both a title and a uri.
UsableChunks ==
  SelectSeq(relayTrace.outcome.grounding.chunks,
            LAMBDA chunk : Truthy(chunk.uri) /\ Truthy(chunk.title))

ReturnedSources == Get(relayTrace.result.value, <<"sources">>).items

\* C4: the sources getEconomicData returns hold exactly one entry per
\* distinct uri among the chunks carrying both a title and a uri, each entry
\* the title and uri of such a chunk, and nothing else; a reply without
\* grounding metadata yields an empty list, and a clean reply is answered
\* with status 200 whether or not it carries grounding metadata.
C4_OneSourcePerUri ==
  /\ (ReplyHandled /\ relayTrace.outcome.text \in CleanTexts) =>
       relayTrace.result.ok /\ relayTrace.response.status = 200
  /\ (ReplyHandled /\ relayTrace.result.ok) =>
    /\ {Get(ReturnedSources[i], <<"uri">>) : i \in 1..Len(ReturnedSources)}
         = {UsableChunks[j].uri : j \in 1..Len(UsableChunks)}
    /\ \A i, j \in 1..Len(ReturnedSources) :
         Get(ReturnedSources[i], <<"uri">>) = Get(ReturnedSources[j], <<"uri">>)
           => i = j
    /\ \A i \in 1..Len(ReturnedSources) :
         \E j \in 1..Len(UsableChunks) :
           ReturnedSources[i] = Source(UsableChunks[j].title, UsableChunks[j].uri)
    /\ ~relayTrace.outcome.grounding.present => ReturnedSources = <<>>

\* Two chunks share a uri under different titles and one source came back.
C4_Witness ==
  /\ ReplyHandled /\ relayTrace.result.ok
  /\ Len(UsableChunks) = 2
  /\ UsableChunks[1].uri = UsableChunks[2].uri
  /\ UsableChunks[1].title # UsableChunks[2].title
  /\ Len(ReturnedSources) = 1

\* A reply without grounding metadata came back with no sources.
C4_WitnessNoGrounding ==
  /\ ReplyHandled /\ relayTrace.result.ok
  /\ ~relayTrace.outcome.grounding.present
  /\ ReturnedSources = <<>>

\* a <= b on the dates of two rows; false when either is an invalid date.
DateLeq(a, b) ==
  DateOf(a) # NaN /\ DateOf(b) # NaN /\ DateOf(a) <= DateOf(b)

DatesAscending(rows) ==
  \A i \in 1..(Len(rows) - 1) : DateLeq(rows[i], rows[i + 1])

\* C5: in every state of the view that holds loaded rows, each row's date
\* parsed from month is less than or equal to the next row's date.
C5_RowsAscending ==
  (data # Null) => DatesAscending(data.items)

\* The same for loaded rows whose months all parse as dates.
C5_RowsAscendingWhenMonthsParse ==
  (data # Null /\ \A i \in 1..Len(data.items) : DateOf(data.items[i]) # NaN)
    => DatesAscending(data.items)

\* The relay listed 2025-01 before 2024-12 and the view starts with 2024-12.
C5_Witness ==
  /\ relayTrace.done /\ relayTrace.result.ok /\ clientTrace.settled
  /\ Get(relayTrace.result.value, <<"data">>).items
       = <<Row(<<"2025-01">>), Row(<<"2024-12">>)>>
  /\ data = Arr(<<Row(<<"2024-12">>), Row(<<"2025-01">>)>>)

\* What response.json() makes of the body the client received.
ReceivedBody == JSONParse(clientTrace.outcome.response.body)

\* The relay answered 2xx with a body whose data and sources are arrays.
UsableAnswer ==
  /\ clientTrace.outcome.arrived
  /\ clientTrace.outcome.response.status \in 200..299
  /\ ReceivedBody.ok
  /\ IsArray(Get(ReceivedBody.val, <<"data">>))
  /\ IsArray(Get(ReceivedBody.val, <<"sources">>))

\* C6: fetchEconomicData resolves, with the body as its FetchResult, only
\* when the relay answered 2xx with a body whose data and sources are both
\* arrays; in every other case it rejects and the caller is handed no data.
C6_ResolvesOnlyOnUsableAnswer ==
  clientTrace.settled =>
    /\ clientTrace.result.ok <=> UsableAnswer
    /\ clientTrace.result.ok => clientTrace.result.value = ReceivedBody.val
    /\ ~clientTrace.result.ok =>
         /\ clientTrace.result.value = Null
         /\ data = Null
         /\ error # Null

\* A 2xx answer whose sources is not an array has been rejected.
C6_Witness ==
  /\ clientTrace.settled /\ ~clientTrace.result.ok
  /\ clientTrace.outcome.arrived
  /\ clientTrace.outcome.response.status = 200
  /\ ReceivedBody.ok
  /\ IsArray(Get(ReceivedBody.val, <<"data">>))
  /\ ~IsArray(Get(ReceivedBody.val, <<"sources">>))

\* What fetch() may settle with: rejected, or one of the answers.
ClientOutcomes ==
  {[arrived |-> FALSE, response |-> NoResponse]}
    \cup {[arrived |-> TRUE, response |-> response] : response \in ForeignResponses}

\* Settling with that outcome fails with this error from another cause.
SameErrorOtherCause(outcome, result, err, cause) ==
  ~result.ok /\ result.error = err /\ CauseOf(outcome, result) # cause

\* C7: each failure of fetchEconomicData is surfaced as one string message,
\* and the error tells its cause (rejected call, non-2xx response, 2xx body
\* without the two arrays): no outcome of another cause produces the error
\* the client has just failed with.
C7_CausesDistinguishable ==
  (clientTrace.settled /\ ~clientTrace.result.ok) =>
    /\ error = Str(clientTrace.result.error.message)
    /\ clientTrace.cause \in {"network", "status", "payload"}
    /\ \A outcome \in ClientOutcomes :
         ~SameErrorOtherCause(outcome, FetchEconomicData(outcome),
                              clientTrace.result.error, clientTrace.cause)

\* A non-2xx answer has failed with the very error of a malformed 2xx body.
C7_Witness ==
  /\ clientTrace.settled /\ clientTrace.cause = "status"
  /\ clientTrace.result.error = Error(<<FetchErrorPrefix>> \o DataFormatMessage)

View == RenderContent(isLoading, error, data, selectedIndicators)

\* This step starts a fetch: a new request leaves for the relay.
FetchStarts == \E m \in inflight' \ inflight : m.stage = "request"

\* C8: the view starts in Loading; mounting happens once and starts exactly
\* one fetch; every step that starts a fetch, the mount's or a later one
\* (retry, fetch button), leaves the view in Loading with no error, and it
\* stays so while the fetch is in flight.
C8_FetchPutsViewInLoading ==
  /\ (View = "Loading" /\ inflight = {})
  /\ [][/\ mounted => mounted'
        /\ (~mounted /\ mounted') =>
             inflight = {} /\ inflight' = {Request(InitialSelection)}
        /\ FetchStarts =>
             /\ isLoading' /\ error' = Null /\ data' = Null
             /\ Cardinality(inflight' \ inflight) = 1
             /\ RenderContent(isLoading', error', data', selectedIndicators')
                  = "Loading"]_vars
  /\ [](inflight # {} => (View = "Loading" /\ error = Null))

\* A fetch of a selection other than the mount's is in flight.
C8_Witness ==
  /\ mounted /\ View = "Loading" /\ error = Null
  /\ \E m \in inflight : m.stage = "request" /\ m.indicators # InitialSelection

\* The last fetch failed and loadData has not run since.
FetchFailed == clientTrace.settled /\ ~clientTrace.result.ok

EmptyResponseLoaded ==
  /\ clientTrace.settled /\ clientTrace.result.ok
  /\ Get(clientTrace.result.value, <<"data">>).items = <<>>

\* The Empty state: the "No Data Available" view, with no error.
EmptyState ==
  /\ error = Null
  /\ View = "NoData"
  /\ View # "Error" /\ View # "Chart"

\* C10 as stated: a successful response with zero rows puts the view in the
\* Empty state, which is neither the Error view nor the chart view.
C10_ZeroRowsIsEmptyState ==
  EmptyResponseLoaded => EmptyState

\* C10, amended: the same while at least one indicator is selected.
C10_ZeroRowsIsEmptyStateWhenSelected ==
  (EmptyResponseLoaded /\ Len(selectedIndicators) > 0) => EmptyState

\* A response with zero rows is shown as "No Data Available" with two
\* indicators selected.
C10_Witness ==
  /\ EmptyResponseLoaded /\ EmptyState
  /\ data = Arr(<<>>)
  /\ Len(selectedIndicators) = 2

\* C11: provided the exchange with the relay settles, the Loading view is
\* always eventually followed by the Error, the Empty or the chart view.
C11_LoadingEventuallyLeft ==
  (View = "Loading") ~> (View \in {"Error", "NoData", "Chart"})

\* A fetch has been delivered as two rows in the chart view.
C11_Witness ==
  /\ clientTrace.settled /\ clientTrace.result.ok
  /\ View = "Chart" /\ inflight = {}
  /\ Len(data.items) = MaxRows

\* C12: at most one fetch to the relay is in flight at any time: no sequence
\* of mount, retry, explicit fetch and toggles starts a fetch while an earlier
\* one has not completed.
C12_AtMostOneInFlight ==
  /\ Cardinality(inflight) <= 1
  /\ inflight # {} => isLoading

\* A fetch started by the user after toggles, alone in flight.
C12_Witness ==
  /\ Cardinality(inflight) = 1
  /\ selectedIndicators # InitialSelection
  /\ \E m \in inflight : m.indicators = selectedIndicators /\ Len(m.indicators) = 2

RECURSIVE Split(_, _)
Split(t, sep) ==
  IF \A i \in 1..Len(t) : t[i] # sep
  THEN <<t>>
  ELSE LET i == CHOOSE i \in 1..Len(t) :
                  t[i] = sep /\ \A j \in 1..(i - 1) : t[j] # sep
       IN <<SubSeq(t, 1, i - 1)>> \o Split(SubSeq(t, i + 1, Len(t)), sep)

CsvLines(content) == Split(content, "\n")
CsvFields(line) == Split(line, ",")

\* C14: for every non-empty selection the first line of the CSV is Month
\* followed by the quoted display names of exactly the selected keys, in
\* selection order.
C14_HeaderNamesSelection ==
  (download.started /\ Len(download.selection) > 0)
    => /\ Len(CsvFields(CsvLines(download.content)[1]))
            = 1 + Len(download.selection)
       /\ CsvFields(CsvLines(download.content)[1])[1] = <<"Month">>
       /\ \A i \in 1..Len(download.selection) :
            CsvFields(CsvLines(download.content)[1])[i + 1]
              = <<Quote, IndicatorName(download.selection[i]), Quote>>

\* An export of two indicators selected in the order opposite to the catalog's.
C14_Witness ==
  /\ download.started
  /\ download.selection = <<"pesoDollarRate", "gdpGrowth">>
  /\ Len(download.rows) = 2

\* The field the CSV is to hold for an indicator of a row: the text of the
\* row's number, nothing when the row has null or no member for it.
ExpectedCsvField(row, key) ==
  IF Get(row, <<key>>).k = "num" THEN <<Get(row, <<key>>).n>> ELSE <<>>

CsvDataLine(r) == CsvFields(CsvLines(download.content)[r + 1])

\* C15: the CSV holds exactly one data line per loaded row, in loaded order;
\* each line is the quoted month followed by one field per selected indicator
\* in selection order, the row's value or nothing when it is null or absent.
C15_OneLinePerRow ==
  download.started
    => /\ Len(CsvLines(download.content)) = 1 + Len(download.rows)
       /\ \A r \in 1..Len(download.rows) :
            /\ Len(CsvDataLine(r)) = 1 + Len(download.selection)
            /\ CsvDataLine(r)[1]
                 = <<Quote>> \o Get(download.rows[r], <<"month">>).s \o <<Quote>>
            /\ \A i \in 1..Len(download.selection) :
                 CsvDataLine(r)[i + 1]
                   = ExpectedCsvField(download.rows[r], download.selection[i])

\* An export of two rows that hold a value, a zero, a null and, for two
\* indicators, no member at all.
C15_Witness ==
  /\ download.started
  /\ download.rows = ExportRows
  /\ download.selection = <<"wtiCrudeOil", "pesoDollarRate", "gdpGrowth">>

NoRowsLoaded == ~Truthy(data) \/ Len(data.items) = 0

\* C16: in every state in which no rows are loaded (before the first
\* successful fetch, after a failed one, while a fetch is in progress, after a
\* response with zero rows) an export builds no CSV and starts no download.
C16_NoExportWithoutRows ==
  [][NoRowsLoaded => (~download'.started /\ download'.content = <<>>)]_vars

\* An export asked for after a response with zero rows.
C16_Witness ==
  /\ download.requested /\ ~download.started
  /\ clientTrace.settled /\ clientTrace.result.ok
  /\ data = Arr(<<>>)

C16_WitnessLoading ==
  download.requested /\ ~download.started /\ isLoading /\ inflight # {}

C16_WitnessAfterFailure ==
  download.requested /\ ~download.started /\ View = "Error"

\* C17: every invocation of fetchEconomicData calls fetch() exactly once,
\* whether the call succeeds or fails: no second call, no retry of its own.
C17_OneNetworkCall ==
  /\ \A m \in inflight : m.fetches = 1
  /\ clientTrace.settled => clientTrace.fetches = 1

\* An invocation that failed on a non-2xx response of the relay.
C17_Witness ==
  /\ clientTrace.settled
  /\ clientTrace.cause = "status"
  /\ relayTrace.done /\ relayTrace.response.status = 500
  /\ clientTrace.fetches = 1

C18_EmptyListRejected ==
  /\ clientTrace.settled /\ ~clientTrace.result.ok
  /\ relayTrace.done /\ relayTrace.response = BadRequestResponse
  /\ View = "Error"

\* The list of a POST request is missing, not an array, empty, or holds a key
\* that is not in the catalog.
InvalidList(m) ==
  /\ m.method = "POST"
  /\ \/ m.list # "array"
     \/ Len(m.indicators) = 0
     \/ \E i \in 1..Len(m.indicators) : m.indicators[i] \notin IndicatorKeys

\* C19: a request whose indicator list is missing, empty, or holds a key that
\* is not in the catalog is answered 400, and no outbound call to the model is
\* made for it.
C19_InvalidListRejected ==
  \A m \in inflight :
    InvalidList(m)
      => /\ m.stage # "model"
         /\ m.calls = 0
         /\ m.stage = "response" => m.response.status = 400

\* The parts of C19 the handler keeps: a missing or empty list is answered 400
\* before getEconomicData is invoked.
C19_MissingListAnswered ==
  \E m \in inflight :
    /\ m.method = "POST" /\ m.list = "missing"
    /\ m.stage = "response" /\ m.response = BadRequestResponse
    /\ relayTrace.done /\ ~relayTrace.invoked

\* A list with a key outside the catalog is answered 500.
C19_UnknownKeyAnswered500 ==
  \E m \in inflight :
    /\ m.indicators = <<"gdpGrowth", "bogus">>
    /\ m.stage = "response" /\ m.response.status = 500

\* The model is called for a key that Object.prototype answers.
C19_InheritedKeyCalled ==
  \E m \in inflight :
    m.indicators = <<"constructor">> /\ m.stage = "model" /\ m.calls = 1

\* The body of the response the relay sent, as JSON.parse reads it.
SentBody == JSONParse(relayTrace.response.body)

\* getEconomicData was invoked and failed.
GetEconomicDataFailed ==
  relayTrace.done /\ relayTrace.invoked /\ ~relayTrace.result.ok

\* The failure is answered with a non-200 status and a JSON body carrying a
\* message and the error's text as details.
FailureAnswered ==
  GetEconomicDataFailed
    => /\ relayTrace.response.status # 200
       /\ SentBody.ok
       /\ Get(SentBody.val, <<"message">>).k = "str"
       /\ Get(SentBody.val, <<"details">>)
            = Str(relayTrace.result.error.message)

\* The body of a response is a JSON object whose data and sources are arrays.
IsFetchResultBody(response) ==
  /\ JSONParse(response.body).ok
  /\ IsArray(Get(JSONParse(response.body).val, <<"data">>))
  /\ IsArray(Get(JSONParse(response.body).val, <<"sources">>))

C20_WitnessSuccess ==
  /\ relayTrace.done /\ relayTrace.result.ok
  /\ relayTrace.response.status = 200
  /\ Len(Get(SentBody.val, <<"data">>).items) = MaxRows

\* What the error view shows for the current error.
ErrorView == GetFriendlyErrorMessage(error)

\* The relay failed on the missing key and its response reached loadData.
ConfigurationFailureShown ==
  /\ relayTrace.done /\ relayTrace.invoked /\ ~relayTrace.keyPresent
  /\ clientTrace.settled /\ clientTrace.outcome.arrived
  /\ clientTrace.outcome.response = relayTrace.response
  /\ View = "Error"

\* C21: when the relay fails because the key is missing, the error string
\* that reaches the view still contains the configuration marker, and the
\* view shows the Configuration Error setup instructions, not the generic
\* Error Fetching Data message.
C21_ConfigurationErrorShown ==
  ConfigurationFailureShown
    => /\ Includes(error.s, <<ConfigMarker>>)
       /\ ErrorView.title = "Configuration Error"
       /\ ErrorView.message = SetupInstructions
       /\ ErrorView.isHtml

\* The configuration failure is on display, after toggles.
C21_Witness ==
  /\ ConfigurationFailureShown
  /\ ~apiKey
  /\ Len(selectedIndicators) = 2

ConfigurationView ==
  [title |-> "Configuration Error", message |-> SetupInstructions,
   isHtml |-> TRUE]

\* The stretches of the text from a "{" to a later "}", and the non-empty
\* strings that a JSON object among them holds as message or details.
EmbeddedObjectTexts(text) ==
  {SubSeq(text, i, j) : <<i, j>> \in
     {<<i, j>> \in (1..Len(text)) \X (1..Len(text)) :
        i < j /\ text[i] = "{" /\ text[j] = "}"}}

StringMembers(p) ==
  IF p.ok /\ p.val.k = "obj"
  THEN {v.s : v \in {w \in {Get(p.val, <<"details">>), Get(p.val, <<"message">>)} :
                        w.k = "str" /\ w.s # <<>>}}
  ELSE {}

EmbeddedStringFields(text) ==
  UNION {StringMembers(JSONParse(t)) : t \in EmbeddedObjectTexts(text)}

\* C22: for every raw error string: with the marker in any case the setup
\* instructions are returned, even when a JSON object is embedded too;
\* otherwise, when a JSON object with a string message or details member is
\* embedded, that member is returned; otherwise the raw string, verbatim.
C22_FriendlyPrecedence ==
  Truthy(error)
    => IF MarkerTest(error.s) THEN ErrorView = ConfigurationView
       ELSE IF EmbeddedStringFields(error.s) # {}
       THEN /\ ErrorView.title = "Error Fetching Data"
            /\ ErrorView.message \in EmbeddedStringFields(error.s)
       ELSE ErrorView = FriendlyRaw(error.s)

\* The first of the candidates error.message, details, message that is not
\* empty, null or missing; Undefined when there is none.
FirstCandidate(v) ==
  IF \E c \in 1..3 : Truthy(<<Get(Get(v, <<"error">>), <<"message">>),
                              Get(v, <<"details">>), Get(v, <<"message">>)>>[c])
  THEN <<Get(Get(v, <<"error">>), <<"message">>),
         Get(v, <<"details">>), Get(v, <<"message">>)>>[
           CHOOSE c \in 1..3 :
             /\ Truthy(<<Get(Get(v, <<"error">>), <<"message">>),
                         Get(v, <<"details">>), Get(v, <<"message">>)>>[c])
             /\ \A d \in 1..(c - 1) :
                  ~Truthy(<<Get(Get(v, <<"error">>), <<"message">>),
                            Get(v, <<"details">>), Get(v, <<"message">>)>>[d])]
  ELSE Undefined

\* The text from the first "{" to the last "}" is one JSON value whose
\* first candidate is a string.
OneObjectWithStringCandidate(text) ==
  /\ JsonMatch(text) # <<>>
  /\ JSONParse(JsonMatch(text)).ok
  /\ FirstCandidate(JSONParse(JsonMatch(text)).val).k = "str"

\* C22, with the precedence spelled out: the marker first; otherwise, when
\* the text from the first "{" to the last "}" is one JSON value, the first
\* non-empty one of error.message, details and message, if it is a string;
\* otherwise the raw string.
C22_FriendlyPrecedenceOneObject ==
  Truthy(error)
    => IF MarkerTest(error.s) THEN ErrorView = ConfigurationView
       ELSE IF OneObjectWithStringCandidate(error.s)
       THEN /\ ErrorView.title = "Error Fetching Data"
            /\ ErrorView.message
                 = FirstCandidate(JSONParse(JsonMatch(error.s)).val).s
            /\ ~ErrorView.isHtml
       ELSE ErrorView = FriendlyRaw(error.s)

\* The marker, in upper case, together with an embedded JSON object.
C22_Witness ==
  /\ apiKey /\ Truthy(error)
  /\ MarkerTest(error.s) /\ ~Includes(error.s, <<ConfigMarker>>)
  /\ EmbeddedStringFields(error.s) # {}
  /\ ErrorView = ConfigurationView

\* A message taken from an embedded object that also holds a member details.
C22_WitnessField ==
  /\ Truthy(error) /\ ~MarkerTest(error.s)
  /\ ErrorView.message = <<"detailed">>

\* An embedded object has a string message, yet the raw string is shown.
C22_WitnessRawDespiteObject ==
  /\ Truthy(error) /\ ~MarkerTest(error.s)
  /\ EmbeddedStringFields(error.s) # {}
  /\ ErrorView = FriendlyRaw(error.s)

(***************************************************************************)
(* Records without a recognizable month.                                   *)
(***************************************************************************)

\* The record's month parses as a date.
RecognizableMonth(row) == DateOf(row) # NaN

\* The payload the relay answered with holds a record with no recognizable
\* month.
PayloadHasMonthlessRecord ==
  /\ relayTrace.done /\ relayTrace.result.ok
  /\ \E i \in 1..Len(Get(relayTrace.result.value, <<"data">>).items) :
       ~RecognizableMonth(Get(relayTrace.result.value, <<"data">>).items[i])

\* C23: a payload in which some record has no recognizable month is rejected
\* with an error and never reaches the view's chart: once the fetch of such a
\* payload has settled, the view shows the error and holds none of its rows.
C23_MonthlessPayloadRejected ==
  (PayloadHasMonthlessRecord /\ clientTrace.settled)
    => (Truthy(error) /\ View = "Error" /\ data = Null)

\* The payload's second record has no month at all and the chart shows both.
C23_WitnessChartWithMonthlessRow ==
  /\ PayloadHasMonthlessRecord /\ clientTrace.settled
  /\ View = "Chart" /\ Len(data.items) = 2
  /\ Obj(<<>>) \in {data.items[i] : i \in 1..Len(data.items)}

\* Records with a month and none of the indicators' keys are accepted.
C23_RecordsWithoutIndicatorKeysAccepted ==
  (/\ relayTrace.done /\ relayTrace.result.ok /\ clientTrace.settled
   /\ ~PayloadHasMonthlessRecord /\ clientTrace.outcome.arrived
   /\ clientTrace.outcome.response = relayTrace.response)
    => (error = Null /\ data # Null)

(***************************************************************************)
(* The title of a uri cited more than once.                                *)
(***************************************************************************)

\* The place in the usable chunks of the last one citing uri.
LastChunkWith(uri) ==
  CHOOSE j \in 1..Len(UsableChunks) :
    /\ UsableChunks[j].uri = uri
    /\ \A l \in (j + 1)..Len(UsableChunks) : UsableChunks[l].uri # uri

\* C24: every source getEconomicData returns carries the title of the last
\* chunk, among the chunks with both a title and a uri, that cites the
\* source's uri: when several chunks share a uri the last one's title wins.
C24_LastTitleWins ==
  (ReplyHandled /\ relayTrace.result.ok) =>
    \A i \in 1..Len(ReturnedSources) :
      Get(ReturnedSources[i], <<"title">>)
        = UsableChunks[LastChunkWith(Get(ReturnedSources[i], <<"uri">>))].title

\* Two chunks cite one uri as "BSP" and then as "BSP Dup"; the one source
\* returned is titled "BSP Dup".
C24_Witness ==
  /\ ReplyHandled /\ relayTrace.result.ok
  /\ Len(UsableChunks) = 2
  /\ UsableChunks[1].uri = UsableChunks[2].uri
  /\ UsableChunks[1].title = Str(<<"BSP">>)
  /\ UsableChunks[2].title = Str(<<"BSP Dup">>)
  /\ ReturnedSources = <<Source(Str(<<"BSP Dup">>), UsableChunks[1].uri)>>

(***************************************************************************)
(* Sorting the loaded rows again.                                          *)
(***************************************************************************)

\* The rows the relay returned, which loadData sorted.
FetchedRows == Get(clientTrace.result.value, <<"data">>).items

RowsLoaded == clientTrace.settled /\ clientTrace.result.ok /\ data # Null

C25_SortIdempotentWhenMonthsParse ==
  (RowsLoaded /\ \A i \in 1..Len(FetchedRows) : RecognizableMonth(FetchedRows[i]))
    => /\ data.items \in SortOutcomes(FetchedRows)
       /\ SortOutcomes(data.items) = {data.items}

\* Three rows fetched out of order, all with a month that parses, are stored
\* in ascending order.
C25_Witness ==
  /\ RowsLoaded
  /\ FetchedRows = <<Row(<<"2025-01">>), Row(<<"2024-12">>), Row(<<"2024-12">>)>>
  /\ data.items = <<Row(<<"2024-12">>), Row(<<"2024-12">>), Row(<<"2025-01">>)>>

FetchInFlight == inflight # {}

\* C26 as stated: in every reachable state the loading flag is true if and
\* only if a fetch is in flight.
C26_LoadingIffInFlight == isLoading <=> FetchInFlight

\* C26: the loading flag is never false while a request to the relay is
\* outstanding, and once the mount effect has run the flag is true if and
\* only if a fetch is in flight; before that, on the first render, the flag
\* is true and no fetch has started.
C26_LoadingIffInFlightOnceMounted ==
  /\ FetchInFlight => isLoading
  /\ mounted => (isLoading <=> FetchInFlight)
  /\ ~mounted => (isLoading /\ ~FetchInFlight)

\* A fetch started by the retry button is in flight with the flag set.
C26_Witness ==
  /\ mounted /\ isLoading /\ FetchInFlight
  /\ ~apiKey /\ \E m \in inflight : m.stage = "response"

\* A fetch has completed and the flag is cleared with nothing in flight.
C26_WitnessCompleted ==
  /\ mounted /\ ~isLoading /\ ~FetchInFlight /\ clientTrace.settled

(***************************************************************************)
(* The selection shown and the keys the rows were fetched for.             *)
(***************************************************************************)

\* The keys requested by the fetch that produced the loaded rows.
RequestedKeys ==
  {clientTrace.indicators[i] : i \in 1..Len(clientTrace.indicators)}

SelectedKeys == {selectedIndicators[i] : i \in 1..Len(selectedIndicators)}

\* The chart is shown over rows that a fetch produced.
Populated == View = "Chart" /\ clientTrace.settled /\ clientTrace.result.ok

\* C27: in every state showing the chart over fetched rows, each selected
\* indicator, which the chart plots and the export writes, was among the keys
\* requested by the fetch that produced the rows.
C27_SelectionWasRequested == Populated => SelectedKeys \subseteq RequestedKeys

\* Rows fetched for the peso-dollar rate alone are charted with GDP growth
\* selected as well.
C27_WitnessUnrequestedKeyCharted ==
  /\ Populated /\ Len(data.items) > 0
  /\ clientTrace.indicators = <<"pesoDollarRate">>
  /\ selectedIndicators = <<"pesoDollarRate", "gdpGrowth">>

(***************************************************************************)
(* The chart's axes.                                                       *)
(***************************************************************************)

\* The series is bound to a rendered axis whose unit label is the unit of
\* the series' indicator.
BoundToOwnUnit(series, selection) ==
  \E axis \in YAxes(selection) :
    axis.yAxisId = series.yAxisId /\ axis.unit = IndicatorUnit(series.dataKey)

\* C28: whenever the chart is shown, each plotted series is bound to a Y
\* axis whose unit label equals the unit of its indicator, the left axis
\* carrying the first distinct unit of the selection and the right axis the
\* second, whatever the selection.
C28_SeriesOnAxisOfOwnUnit ==
  (View = "Chart") =>
    \A i \in 1..Len(selectedIndicators) :
      BoundToOwnUnit(Series(selectedIndicators)[i], selectedIndicators)

\* The same for selections with at most two distinct units.
C28_SeriesOnAxisOfOwnUnitUpToTwoUnits ==
  (View = "Chart" /\ Len(Units(selectedIndicators)) <= 2) =>
    \A i \in 1..Len(selectedIndicators) :
      BoundToOwnUnit(Series(selectedIndicators)[i], selectedIndicators)

\* Three units are selected and the crude-oil series, in dollars, is bound
\* to the left axis, labelled in pesos.
C28_WitnessThirdUnitOnLeftAxis ==
  /\ View = "Chart" /\ Len(data.items) > 0
  /\ selectedIndicators = <<"pesoDollarRate", "gdpGrowth", "wtiCrudeOil">>
  /\ Series(selectedIndicators)[3].yAxisId = "left"
  /\ YAxis1Unit(selectedIndicators) = "₱"

\* Two units are selected, one on each axis.
C28_WitnessTwoUnits ==
  /\ View = "Chart" /\ Len(data.items) > 0
  /\ selectedIndicators = <<"pesoDollarRate", "gdpGrowth">>
  /\ Series(selectedIndicators)[2].yAxisId = "right"

(***************************************************************************)
(* Toggling indicators.                                                    *)
(***************************************************************************)

\* This step changes the selection.
SelectionChanges == selectedIndicators' # selectedIndicators

\* C29: a step that toggles an indicator changes only the selection: it
\* starts no fetch and leaves the loaded rows, the sources, the error, the
\* loading flag and the requests in flight unchanged, whatever the view.
C29_ToggleChangesOnlySelection ==
  [][SelectionChanges =>
       /\ ~FetchStarts
       /\ UNCHANGED <<data, sources, error, isLoading, inflight>>]_vars

\* The selection was toggled after the fetch that failed was started, and
\* the error of that fetch is still shown.
C29_Witness ==
  /\ View = "Error" /\ clientTrace.settled
  /\ clientTrace.indicators = <<"pesoDollarRate">>
  /\ selectedIndicators = <<"pesoDollarRate", "wtiCrudeOil">>

\* The selection was toggled while the fetch for it was in flight.
C29_WitnessLoading ==
  /\ View = "Loading"
  /\ \E m \in inflight : m.indicators # selectedIndicators

NoKeyTwice(selection) ==
  \A i, j \in 1..Len(selection) : selection[i] = selection[j] => i = j

IsSelected(key) == \E i \in 1..Len(selectedIndicators) : selectedIndicators[i] = key

\* C30: the selection never holds a key twice and holds only keys of the
\* catalog; every step that changes it is the toggle of one catalog key,
\* which removes the key if it was selected, the others keeping their
\* order, and appends it at the end if it was not.
C30_SelectionWellFormed ==
  /\ [](/\ NoKeyTwice(selectedIndicators)
        /\ SelectedKeys \subseteq IndicatorKeys)
  /\ [][SelectionChanges =>
          \E key \in IndicatorKeys :
            IF IsSelected(key)
            THEN /\ ~\E i \in 1..Len(selectedIndicators') :
                       selectedIndicators'[i] = key
                 /\ selectedIndicators'
                      = SelectSeq(selectedIndicators, LAMBDA item : item # key)
                 /\ Len(selectedIndicators') = Len(selectedIndicators) - 1
            ELSE /\ selectedIndicators' = selectedIndicators \o <<key>>]_vars

\* The first selected key was removed and later selected again: it now
\* comes last.
C30_Witness ==
  /\ selectedIndicators = <<"gdpGrowth", "wtiCrudeOil", "pesoDollarRate">>
  /\ NoKeyTwice(selectedIndicators)

=============================================================================
